---- MODULE Spec2Model ----
(***************************************************************************)
(* Model of the tauri-app backend: the relay WebSocket server              *)
(* (src-tauri/src/websocket.rs) and the DeepFace worker supervisor         *)
(* (src-tauri/src/deepFaceProcess.rs).                                     *)
(***************************************************************************)
EXTENDS Integers, Sequences, FiniteSets, TLC

\* ------------------------------------------------------------------------
\* Program constants and model bounds
\* ------------------------------------------------------------------------

\* websocket.rs:24
MAX_CONNECTIONS == 1

\* number of client connection slots (concurrent TCP peers)
NumConns == 2

\* total number of text frames all clients send to the relay
MaxFrames == 2

\* largest requestId value clients put on the wire
MaxRequestId == 1

\* number of host tasks that invoke the worker commands concurrently
NumCallers == 2

\* number of analyze / verify / detect calls the host makes
MaxCalls == 3

\* frames the worker has sent that no call has read yet
MaxInbox == 2

Conns == 1..NumConns

Callers == 1..NumCallers

\* ------------------------------------------------------------------------
\* JSON values (serde_json::Value) and Option<T>
\* ------------------------------------------------------------------------

JAbsent == [k |-> "absent"]
JNull == [k |-> "null"]
JNum(n) == [k |-> "num", n |-> n]
JStr(s) == [k |-> "str", s |-> s]
JArr(a) == [k |-> "arr", a |-> a]
JObj(o) == [k |-> "obj", o |-> o]

None == << >>
Some(x) == << x >>
IsSome(o) == Len(o) = 1

\* ------------------------------------------------------------------------
\* Frames on the relay socket
\* ------------------------------------------------------------------------

TextFrame(body) == [type |-> "text", body |-> body]
CloseFrame == [type |-> "close"]

\* websocket.rs:180-183
HelloBody == JObj([status |-> JStr("ok"), message |-> JStr("Connected to Rust WS server")])

\* websocket.rs:138-141
BusyBody == JObj([status |-> JStr("error"), message |-> JStr("Server busy: too many connections")])

\* websocket.rs:210-213
InvalidJsonBody == JObj([status |-> JStr("error"), message |-> JStr("Invalid JSON")])

\* Texts a client can put in a text frame: either something that is not a
\* JSON object, or an object whose three envelope fields are each a JSON
\* value or absent.
Garbage == [json |-> FALSE]
Envelope(id, cmd, payload) == [json |-> TRUE, requestId |-> id, command |-> cmd, payload |-> payload]

KnownCommands == {"test_server_connection", "fetch_JSON", "fetch_deepFaceCameraEmotionList"}
UnknownCommands == {"fetch_json", "bogus"}

WireIds == {JAbsent, JNull, JNum(-1), JStr("7")} \cup {JNum(n) : n \in 0..MaxRequestId}
WireCommands == {JAbsent, JNum(0)} \cup {JStr(c) : c \in KnownCommands \cup UnknownCommands}
WirePayloads == {JAbsent, JNull, JArr(<< >>), JObj([a |-> JNum(1)])}

WireTexts == {Garbage} \cup {Envelope(i, c, p) : i \in WireIds, c \in WireCommands, p \in WirePayloads}

\* the texts the relay's clients send in the connection model
RelayTexts ==
    { Garbage,
      Envelope(JNum(MaxRequestId), JStr("fetch_JSON"), JObj([a |-> JNum(1)])),
      Envelope(JAbsent, JStr("test_server_connection"), JArr(<< >>)) }

\* ------------------------------------------------------------------------
\* WsRequest / WsResponse and the dispatcher
\* ------------------------------------------------------------------------

\* serde_json::from_str::<WsRequest>: request_id is Option<u64> (absent and
\* null both give None), command is a String, payload is a Value and must be
\* present.
ParseRequest(t) ==
    IF ~t.json THEN [ok |-> FALSE]
    ELSE IF t.command.k # "str" THEN [ok |-> FALSE]
    ELSE IF t.payload.k = "absent" THEN [ok |-> FALSE]
    ELSE IF t.requestId.k \in {"absent", "null"}
         THEN [ok |-> TRUE, req |-> [request_id |-> None, command |-> t.command.s, payload |-> t.payload]]
    ELSE IF t.requestId.k = "num" /\ t.requestId.n >= 0
         THEN [ok |-> TRUE, req |-> [request_id |-> Some(t.requestId.n), command |-> t.command.s, payload |-> t.payload]]
    ELSE [ok |-> FALSE]

Parseable(t) == ParseRequest(t).ok

\* mutant: the unknown-command arm forgets the request id
HandleCommandDropsId(req) ==
    CASE req.command = "test_server_connection" ->
            [request_id |-> req.request_id, status |-> "ok", command |-> req.command,
             data |-> JStr("Server is alive!")]
      [] req.command = "fetch_JSON" ->
            [request_id |-> req.request_id, status |-> "ok", command |-> req.command,
             data |-> req.payload]
      [] req.command = "fetch_deepFaceCameraEmotionList" ->
            [request_id |-> req.request_id, status |-> "ok", command |-> req.command,
             data |-> JArr(<<JStr("happy"), JStr("sad"), JStr("angry")>>)]
      [] OTHER ->
            [request_id |-> None, status |-> "error", command |-> req.command,
             data |-> JObj([message |-> JStr("Unknown command")])]

\* mutant: the unknown-command arm answers like the echo command
HandleCommandEchoesUnknown(req) ==
    CASE req.command = "test_server_connection" ->
            [request_id |-> req.request_id, status |-> "ok", command |-> req.command,
             data |-> JStr("Server is alive!")]
      [] req.command = "fetch_deepFaceCameraEmotionList" ->
            [request_id |-> req.request_id, status |-> "ok", command |-> req.command,
             data |-> JArr(<<JStr("happy"), JStr("sad"), JStr("angry")>>)]
      [] OTHER ->
            [request_id |-> req.request_id, status |-> "ok", command |-> req.command,
             data |-> req.payload]

\* mutant: test_server_connection echoes its payload
HandleCommandTestEchoes(req) ==
    CASE req.command \in {"test_server_connection", "fetch_JSON"} ->
            [request_id |-> req.request_id, status |-> "ok", command |-> req.command,
             data |-> req.payload]
      [] req.command = "fetch_deepFaceCameraEmotionList" ->
            [request_id |-> req.request_id, status |-> "ok", command |-> req.command,
             data |-> JArr(<<JStr("happy"), JStr("sad"), JStr("angry")>>)]
      [] OTHER ->
            [request_id |-> req.request_id, status |-> "error", command |-> req.command,
             data |-> JObj([message |-> JStr("Unknown command")])]

HandleCommand(req) ==
    CASE req.command = "test_server_connection" ->
            [request_id |-> req.request_id, status |-> "ok", command |-> req.command,
             data |-> JStr("Server is alive!")]
      [] req.command = "fetch_JSON" ->
            [request_id |-> req.request_id, status |-> "ok", command |-> req.command,
             data |-> req.payload]
      [] req.command = "fetch_deepFaceCameraEmotionList" ->
            [request_id |-> req.request_id, status |-> "ok", command |-> req.command,
             data |-> JArr(<<JStr("happy"), JStr("sad"), JStr("angry")>>)]
      [] OTHER ->
            [request_id |-> req.request_id, status |-> "error", command |-> req.command,
             data |-> JObj([message |-> JStr("Unknown command")])]

\* status notifications handle_command emits for a request
CommandStatus(req) ==
    IF req.command = "test_server_connection"
    THEN << "Connected (Server connection tested successfully)." >>
    ELSE << >>

\* serde_json::to_string(&WsResponse) with rename_all = "camelCase": a None
\* request_id is written as null.
SerializeResponse(resp) ==
    JObj([requestId |-> IF IsSome(resp.request_id) THEN JNum(resp.request_id[1]) ELSE JNull,
          status |-> JStr(resp.status),
          command |-> JStr(resp.command),
          data |-> resp.data])

\* what the Text arm puts on the wire for text t
ReplyBody(t) ==
    LET p == ParseRequest(t)
    IN IF p.ok THEN SerializeResponse(HandleCommand(p.req)) ELSE InvalidJsonBody

\* status notifications the Text arm emits for text t
ReplyStatus(t) ==
    LET p == ParseRequest(t)
    IN IF p.ok THEN CommandStatus(p.req) ELSE << >>

\* ------------------------------------------------------------------------
\* State
\* ------------------------------------------------------------------------

VARIABLES
    \* relay (websocket.rs)
    pc,        \* per connection task: where it is
    permits,   \* permits left in the semaphore
    permit,    \* per connection task: holds an OwnedSemaphorePermit
    cur,       \* per connection task: the text frame being handled
    log,       \* per connection: frames read from / sent to the client, in order
    status,    \* per connection: cep-status notifications its task emitted
    endedBy,   \* per connection: how its task ended
    sawReject, \* per connection: another connection was rejected while it held its permit
    \* dispatcher applied to one text (parse, handle_command, serialize)
    dIn,       \* the text handed to the dispatcher
    dOut,      \* the body it produced, if it has run
    \* worker subsystem (deepFaceProcess.rs)
    procCell,  \* DEEPFACE_PROCESS: None when unset, else Some(slot); slot is None or Some(child)
    procLock,  \* holder of the Mutex inside DEEPFACE_PROCESS, NoHolder when free
    wsCell,    \* WS_CLIENT: None when unset, else Some(link)
    proc,      \* per start call: the OS process it spawned
    chan,      \* per start call: its oneshot readiness channel
    wpc,       \* per host task: where it is in the command it runs
    result,    \* per host task: what its last command returned
    \* worker protocol client (deepFaceProcess.rs: send_request and its callers)
    counter,   \* REQUEST_COUNTER
    linkLock,  \* holder of the AsyncMutex inside WS_CLIENT, NoHolder when free
    linkDown,  \* the worker's end of the link has closed
    outbox,    \* request ids sent on the link that the worker has not handled yet
    inbox,     \* frames the worker sent on the link that no call has read yet
    myReq,     \* per host task: the requestId of the request its running call built
    lastOk,    \* the latest successful call: the request it sent, the request its value answers
    issued,    \* request ids in the order next_request_id handed them out
    sent,      \* request ids in the order they were written to the link
    failed     \* a call has returned a call error

relayVars == << pc, permits, permit, cur, log, status, endedBy, sawReject >>

dispatchVars == << dIn, dOut >>

workerVars == << procCell, procLock, wsCell, proc, chan, wpc, result >>

callVars == << counter, linkLock, linkDown, outbox, inbox, myReq, lastOk, issued, sent, failed >>

vars == << relayVars, dispatchVars, workerVars, callVars >>

nonRelayVars == << dispatchVars, workerVars, callVars >>

nonDispatchVars == << relayVars, workerVars, callVars >>

\* everything start and stop leave alone
nonWorkerVars == << relayVars, dispatchVars, callVars >>

\* everything outside the worker subsystem
hostVars == << relayVars, dispatchVars >>

In(f) == [dir |-> "in", frame |-> f]
Out(f) == [dir |-> "out", frame |-> f]

IsIn(e) == e.dir = "in"
IsOut(e) == e.dir = "out"

\* frames the client of c has been sent, in order
Sent(c) == LET s == SelectSeq(log[c], IsOut) IN [i \in 1..Len(s) |-> s[i].frame]

RECURSIVE SumOver(_, _)
SumOver(f, S) == IF S = {} THEN 0 ELSE LET x == CHOOSE y \in S : TRUE IN f[x] + SumOver(f, S \ {x})

\* text frames read so far on the connections that exist
TextsRead == SumOver([c \in Conns |-> Len(SelectSeq(log[c], IsIn))], Conns)

\* Semaphore::new(MAX_CONNECTIONS)
SemaphoreNew == MAX_CONNECTIONS

\* mutant: a blocking-style acquire that hands out a permit regardless
TryAcquireAlways(p) == [ok |-> TRUE, permits |-> p - 1]

\* Semaphore::try_acquire_owned: non-blocking
TryAcquireOwned(p) == IF p > 0 THEN [ok |-> TRUE, permits |-> p - 1] ELSE [ok |-> FALSE, permits |-> p]

\* mutant: the permit is forgotten instead of dropped
DropPermitLeaks(p, held) == p

\* mutant: every ending task adds a permit, whether it held one or not
DropPermitAlways(p, held) == p + 1

\* drop(OwnedSemaphorePermit): gives the permit back
DropPermit(p, held) == IF held THEN p + 1 ELSE p

RelayInit ==
    /\ pc = [c \in Conns |-> "idle"]
    /\ permits = SemaphoreNew
    /\ permit = [c \in Conns |-> FALSE]
    /\ cur = [c \in Conns |-> None]
    /\ log = [c \in Conns |-> << >>]
    /\ status = [c \in Conns |-> << >>]
    /\ endedBy = [c \in Conns |-> "none"]
    /\ sawReject = [c \in Conns |-> FALSE]

\* ------------------------------------------------------------------------
\* Relay: accept loop and per-connection task
\* ------------------------------------------------------------------------

\* the connection task returns: its locals, the permit among them, are dropped
Teardown(c, how) ==
    /\ pc' = [pc EXCEPT ![c] = "closed"]
    /\ permits' = DropPermit(permits, permit[c])
    /\ permit' = [permit EXCEPT ![c] = FALSE]
    /\ cur' = [cur EXCEPT ![c] = None]
    /\ endedBy' = [endedBy EXCEPT ![c] = how]

\* listener.accept() returns a stream: a task is spawned for it
Accept(c) ==
    /\ pc[c] \in {"idle", "closed"}
    /\ pc' = [pc EXCEPT ![c] = "handshaking"]
    /\ cur' = [cur EXCEPT ![c] = None]
    /\ log' = [log EXCEPT ![c] = << >>]
    /\ status' = [status EXCEPT ![c] = << >>]
    /\ endedBy' = [endedBy EXCEPT ![c] = "none"]
    /\ UNCHANGED << permits, permit >>
    /\ sawReject' = [sawReject EXCEPT ![c] = FALSE]
    /\ UNCHANGED nonRelayVars

\* listener.accept() returns an error: logged, the loop goes on
AcceptError ==
    /\ UNCHANGED vars

\* accept_async fails: logged, no admission is attempted
HandshakeError(c) ==
    /\ pc[c] = "handshaking"
    /\ Teardown(c, "handshake_error")
    /\ UNCHANGED << log, status >>
    /\ UNCHANGED << sawReject, nonRelayVars >>

\* accept_async succeeds, then try_acquire_owned decides between
\* handle_connection (up to its first await) and reject_connection_busy
Upgrade(c) ==
    /\ pc[c] = "handshaking"
    /\ LET r == TryAcquireOwned(permits) IN
         /\ permits' = r.permits
         /\ IF r.ok
            THEN /\ permit' = [permit EXCEPT ![c] = TRUE]
                 /\ status' = [status EXCEPT ![c] = Append(@, "Connected.")]
                 /\ pc' = [pc EXCEPT ![c] = "greeting"]
            ELSE /\ permit' = permit
                 /\ status' = [status EXCEPT ![c] = Append(@, "Connection Rejected: Server Busy.")]
                 /\ pc' = [pc EXCEPT ![c] = "busy_send"]
         /\ sawReject' = [d \in Conns |-> sawReject[d] \/ (~r.ok /\ permit[d])]
    /\ UNCHANGED << cur, log, endedBy, nonRelayVars >>

\* reject_connection_busy: write.send(busy).await?
BusySend(c) ==
    /\ pc[c] = "busy_send"
    /\ \E sendOk \in BOOLEAN :
         IF sendOk
         THEN /\ log' = [log EXCEPT ![c] = Append(@, Out(TextFrame(BusyBody)))]
              /\ pc' = [pc EXCEPT ![c] = "busy_close"]
              /\ UNCHANGED << permits, permit, cur, endedBy >>
         ELSE /\ Teardown(c, "busy_send_error")
              /\ UNCHANGED log
    /\ UNCHANGED status
    /\ UNCHANGED << sawReject, nonRelayVars >>

\* mutant: the rejection returns without the close frame
BusyCloseOmitted(c) ==
    /\ pc[c] = "busy_close"
    /\ Teardown(c, "busy_done")
    /\ UNCHANGED << log, status, sawReject, nonRelayVars >>

\* reject_connection_busy: let _ = write.send(Close).await; Ok(())
BusyClose(c) ==
    /\ pc[c] = "busy_close"
    /\ \E sendOk \in BOOLEAN :
         IF sendOk
         THEN /\ log' = [log EXCEPT ![c] = Append(@, Out(CloseFrame))]
              /\ Teardown(c, "busy_done")
         ELSE /\ UNCHANGED log
              /\ Teardown(c, "busy_close_error")
    /\ UNCHANGED status
    /\ UNCHANGED << sawReject, nonRelayVars >>

\* mutant: the task enters its read loop without sending the greeting
SendGreetingSkipped(c) ==
    /\ pc[c] = "greeting"
    /\ pc' = [pc EXCEPT ![c] = "reading"]
    /\ UNCHANGED << permits, permit, cur, endedBy, log, status >>
    /\ UNCHANGED << sawReject, nonRelayVars >>

\* handle_connection: write.send(hello).await?
SendGreeting(c) ==
    /\ pc[c] = "greeting"
    /\ \E sendOk \in BOOLEAN :
         IF sendOk
         THEN /\ log' = [log EXCEPT ![c] = Append(@, Out(TextFrame(HelloBody)))]
              /\ pc' = [pc EXCEPT ![c] = "reading"]
              /\ UNCHANGED << permits, permit, cur, endedBy >>
         ELSE /\ Teardown(c, "send_error")
              /\ UNCHANGED log
    /\ UNCHANGED status
    /\ UNCHANGED << sawReject, nonRelayVars >>

\* mutant: the reader runs ahead of the writer
CanReadPipelined(c) == pc[c] \in {"reading", "handling"}

\* the task is at the top of its loop, awaiting read.next()
CanRead(c) == pc[c] = "reading"

\* read.next() yields Message::Text
ReadText(c) ==
    /\ CanRead(c)
    /\ TextsRead < MaxFrames
    /\ \E t \in RelayTexts :
         /\ cur' = [cur EXCEPT ![c] = Some(t)]
         /\ log' = [log EXCEPT ![c] = Append(@, In(t))]
    /\ pc' = [pc EXCEPT ![c] = "handling"]
    /\ UNCHANGED << permits, permit, status, endedBy >>
    /\ UNCHANGED << sawReject, nonRelayVars >>

\* mutant: a text that does not parse ends the session after the error frame
SendReplyEndsOnInvalid(c) ==
    /\ pc[c] = "handling"
    /\ status' = [status EXCEPT ![c] = @ \o ReplyStatus(cur[c][1])]
    /\ \E sendOk \in BOOLEAN :
         IF sendOk
         THEN /\ log' = [log EXCEPT ![c] = Append(@, Out(TextFrame(ReplyBody(cur[c][1]))))]
              /\ IF Parseable(cur[c][1])
                 THEN /\ pc' = [pc EXCEPT ![c] = "reading"]
                      /\ cur' = [cur EXCEPT ![c] = None]
                      /\ UNCHANGED << permits, permit, endedBy >>
                 ELSE Teardown(c, "stream_end")
         ELSE /\ Teardown(c, "send_error")
              /\ UNCHANGED log
    /\ UNCHANGED << sawReject, nonRelayVars >>

\* the Text arm: parse, dispatch or build the error, then write.send(..).await?
SendReply(c) ==
    /\ pc[c] = "handling"
    /\ status' = [status EXCEPT ![c] = @ \o ReplyStatus(cur[c][1])]
    /\ \E sendOk \in BOOLEAN :
         IF sendOk
         THEN /\ log' = [log EXCEPT ![c] = Append(@, Out(TextFrame(ReplyBody(cur[c][1]))))]
              /\ pc' = [pc EXCEPT ![c] = "reading"]
              /\ cur' = [cur EXCEPT ![c] = None]
              /\ UNCHANGED << permits, permit, endedBy >>
         ELSE /\ Teardown(c, "send_error")
              /\ UNCHANGED log
    /\ UNCHANGED << sawReject, nonRelayVars >>

\* read.next() yields Ping, Pong or Binary: ignored, the loop goes on
ReadIgnored(c) ==
    /\ CanRead(c)
    /\ \E kind \in {"ping", "pong", "binary"} : UNCHANGED vars

\* read.next() yields Message::Close: notify and break
ReadClose(c) ==
    /\ CanRead(c)
    /\ status' = [status EXCEPT ![c] = Append(@, "Disconnected...")]
    /\ Teardown(c, "close_frame")
    /\ UNCHANGED log
    /\ UNCHANGED << sawReject, nonRelayVars >>

\* read.next() yields Some(Err(e)): msg_res? returns the error
ReadError(c) ==
    /\ CanRead(c)
    /\ Teardown(c, "read_error")
    /\ UNCHANGED << log, status >>
    /\ UNCHANGED << sawReject, nonRelayVars >>

\* read.next() yields None: the while-let loop ends
ReadEnd(c) ==
    /\ CanRead(c)
    /\ Teardown(c, "stream_end")
    /\ UNCHANGED << log, status >>
    /\ UNCHANGED << sawReject, nonRelayVars >>

RelayNext ==
    \/ AcceptError
    \/ \E c \in Conns : Accept(c)
    \/ \E c \in Conns : HandshakeError(c)
    \/ \E c \in Conns : Upgrade(c)
    \/ \E c \in Conns : BusySend(c)
    \/ \E c \in Conns : BusyClose(c)
    \/ \E c \in Conns : SendGreeting(c)
    \/ \E c \in Conns : ReadText(c)
    \/ \E c \in Conns : SendReply(c)
    \/ \E c \in Conns : ReadIgnored(c)
    \/ \E c \in Conns : ReadClose(c)
    \/ \E c \in Conns : ReadError(c)
    \/ \E c \in Conns : ReadEnd(c)

\* ------------------------------------------------------------------------
\* The dispatcher on its own: one text through the Text arm of
\* handle_connection (parse, handle_command, serialize)
\* ------------------------------------------------------------------------

DispatchIdle ==
    /\ dIn = Garbage
    /\ dOut = None

DispatchInit ==
    /\ dIn \in WireTexts
    /\ dOut = None

Dispatch ==
    /\ dOut = None
    /\ dOut' = Some(ReplyBody(dIn))
    /\ UNCHANGED << dIn, nonDispatchVars >>

NextText ==
    /\ dOut # None
    /\ dIn' \in WireTexts
    /\ dOut' = None
    /\ UNCHANGED nonDispatchVars

DispatchNext ==
    \/ Dispatch
    \/ NextText

\* ------------------------------------------------------------------------
\* Worker subsystem: start_deepface_server / stop_deepface_server
\* ------------------------------------------------------------------------

NoHolder == 0

ErrAlreadyStarted == "DeepFace server already started"
ErrExePath == "Failed to get current exe path"
ErrSpawn == "Failed to start deepface_cli"
ErrTimeout == "Timeout waiting for DeepFace to start"
ErrSignal == "DeepFace startup signal failed"
ErrConnect == "Failed to connect WS"
ErrKill == "Failed to kill deepface_cli"

\* static REQUEST_COUNTER: AtomicU64 = AtomicU64::new(1)
CounterInit == 1

CallInit ==
    /\ counter = CounterInit
    /\ linkLock = NoHolder
    /\ linkDown = FALSE
    /\ outbox = << >>
    /\ inbox = << >>
    /\ myReq = [k \in Callers |-> None]
    /\ lastOk = None
    /\ issued = << >>
    /\ sent = << >>
    /\ failed = FALSE

WorkerInit ==
    /\ procCell = None
    /\ procLock = NoHolder
    /\ wsCell = None
    /\ proc = [k \in Callers |-> "none"]
    /\ chan = [k \in Callers |-> "none"]
    /\ wpc = [k \in Callers |-> "idle"]
    /\ result = [k \in Callers |-> "none"]

\* the command returns r to its caller
Return(k, r) ==
    /\ wpc' = [wpc EXCEPT ![k] = "idle"]
    /\ result' = [result EXCEPT ![k] = r]

\* OnceCell::get().is_some()
CellIsSet(cell) == cell # None

\* OnceCell::set(v).ok(): stores v only in an unset cell
CellSet(cell, v) == IF cell = None THEN Some(v) ELSE cell

\* the host invokes start_deepface_server(port)
CallStart(k) ==
    /\ wpc[k] = "idle"
    /\ wpc' = [wpc EXCEPT ![k] = "s_check"]
    /\ result' = [result EXCEPT ![k] = "pending"]
    /\ UNCHANGED << procCell, procLock, wsCell, proc, chan, nonWorkerVars >>

\* mutant: start goes on to spawn without looking at the stored handle
StartCheckMissing(k) ==
    /\ wpc[k] = "s_check"
    /\ wpc' = [wpc EXCEPT ![k] = "s_spawn"]
    /\ UNCHANGED << result, procCell, procLock, wsCell, proc, chan, nonWorkerVars >>

\* if DEEPFACE_PROCESS.get().is_some() { return Err(..) }
StartCheck(k) ==
    /\ wpc[k] = "s_check"
    /\ IF CellIsSet(procCell)
       THEN Return(k, ErrAlreadyStarted)
       ELSE /\ wpc' = [wpc EXCEPT ![k] = "s_spawn"]
            /\ UNCHANGED result
    /\ UNCHANGED << procCell, procLock, wsCell, proc, chan, nonWorkerVars >>

\* current_exe()?, Command::spawn()?, the two reader tasks and the channel
StartSpawn(k) ==
    /\ wpc[k] = "s_spawn"
    /\ \E outcome \in {"exe_error", "spawn_error", "spawned"} :
         CASE outcome = "exe_error" ->
                /\ Return(k, ErrExePath)
                /\ UNCHANGED << proc, chan >>
           [] outcome = "spawn_error" ->
                /\ Return(k, ErrSpawn)
                /\ UNCHANGED << proc, chan >>
           [] outcome = "spawned" ->
                /\ proc' = [proc EXCEPT ![k] = "starting"]
                /\ chan' = [chan EXCEPT ![k] = "open"]
                /\ wpc' = [wpc EXCEPT ![k] = "s_store"]
                /\ UNCHANGED result
    /\ UNCHANGED << procCell, procLock, wsCell, nonWorkerVars >>

\* DEEPFACE_PROCESS.set(Mutex::new(Some(child))).ok(): a handle that is not
\* stored is dropped, which leaves its process running
StartStore(k) ==
    /\ wpc[k] = "s_store"
    /\ procCell' = CellSet(procCell, Some(k))
    /\ wpc' = [wpc EXCEPT ![k] = "s_wait"]
    /\ UNCHANGED << procLock, wsCell, proc, chan, result, nonWorkerVars >>

\* the worker prints the readiness marker on stderr: the reader task sends
\* on the channel (a send to a dropped receiver is ignored) and stops
WorkerReady(k) ==
    /\ proc[k] = "starting"
    /\ proc' = [proc EXCEPT ![k] = "ready"]
    /\ chan' = [chan EXCEPT ![k] = IF @ = "open" THEN "sent" ELSE @]
    /\ UNCHANGED << procCell, procLock, wsCell, wpc, result, nonWorkerVars >>

\* the worker's stderr ends before the marker: the reader task ends and
\* drops the sender
WorkerStderrEnds(k) ==
    /\ proc[k] = "starting"
    /\ proc' = [proc EXCEPT ![k] = "exited"]
    /\ chan' = [chan EXCEPT ![k] = IF @ = "open" THEN "dropped" ELSE @]
    /\ UNCHANGED << procCell, procLock, wsCell, wpc, result, nonWorkerVars >>

\* timeout(60s, ready_rx) resolves with the signal
StartReady(k) ==
    /\ wpc[k] = "s_wait"
    /\ chan[k] = "sent"
    /\ wpc' = [wpc EXCEPT ![k] = "s_connect"]
    /\ chan' = [chan EXCEPT ![k] = "received"]
    /\ UNCHANGED << procCell, procLock, wsCell, proc, result, nonWorkerVars >>

\* mutant: start goes on to connect when the wait times out
StartTimeoutConnects(k) ==
    /\ wpc[k] = "s_wait"
    /\ chan[k] = "open"
    /\ wpc' = [wpc EXCEPT ![k] = "s_connect"]
    /\ chan' = [chan EXCEPT ![k] = "closed"]
    /\ UNCHANGED << procCell, procLock, wsCell, proc, result, nonWorkerVars >>

\* mutant: start kills the process it spawned when the wait times out
StartTimeoutKills(k) ==
    /\ wpc[k] = "s_wait"
    /\ chan[k] = "open"
    /\ Return(k, ErrTimeout)
    /\ chan' = [chan EXCEPT ![k] = "closed"]
    /\ proc' = [proc EXCEPT ![k] = "exited"]
    /\ UNCHANGED << procCell, procLock, wsCell, nonWorkerVars >>

\* timeout(60s, ready_rx) elapses
StartTimeout(k) ==
    /\ wpc[k] = "s_wait"
    /\ chan[k] = "open"
    /\ Return(k, ErrTimeout)
    /\ chan' = [chan EXCEPT ![k] = "closed"]
    /\ UNCHANGED << procCell, procLock, wsCell, proc, nonWorkerVars >>

\* timeout(60s, ready_rx) resolves with RecvError: the sender was dropped
StartSignalFailed(k) ==
    /\ wpc[k] = "s_wait"
    /\ chan[k] = "dropped"
    /\ Return(k, ErrSignal)
    /\ chan' = [chan EXCEPT ![k] = "closed"]
    /\ UNCHANGED << procCell, procLock, wsCell, proc, nonWorkerVars >>

\* connect_async(url)?, then WS_CLIENT.set(..).ok()
StartConnect(k) ==
    /\ wpc[k] = "s_connect"
    /\ \/ /\ Return(k, ErrConnect)
          /\ UNCHANGED wsCell
       \/ \E j \in Callers :
            /\ proc[j] = "ready"
            /\ wsCell' = CellSet(wsCell, j)
            /\ Return(k, "ok")
    /\ UNCHANGED << procCell, procLock, proc, chan, nonWorkerVars >>

\* the host invokes stop_deepface_server()
CallStop(k) ==
    /\ wpc[k] = "idle"
    /\ wpc' = [wpc EXCEPT ![k] = "stop_check"]
    /\ result' = [result EXCEPT ![k] = "pending"]
    /\ UNCHANGED << procCell, procLock, wsCell, proc, chan, nonWorkerVars >>

\* mutant: stop reports an error when it finds no handle to kill
StopCheckErrors(k) ==
    /\ wpc[k] = "stop_check"
    /\ IF CellIsSet(procCell) /\ IsSome(procCell[1])
       THEN /\ procLock = NoHolder
            /\ procLock' = k
            /\ wpc' = [wpc EXCEPT ![k] = "stop_kill"]
            /\ UNCHANGED result
       ELSE /\ Return(k, ErrKill)
            /\ UNCHANGED procLock
    /\ UNCHANGED << procCell, wsCell, proc, chan, nonWorkerVars >>

\* DEEPFACE_PROCESS.get(), proc_mutex.lock(), lock.as_mut()
StopCheck(k) ==
    /\ wpc[k] = "stop_check"
    /\ IF ~CellIsSet(procCell)
       THEN /\ Return(k, "ok")
            /\ UNCHANGED procLock
       ELSE /\ procLock = NoHolder
            /\ IF IsSome(procCell[1])
               THEN /\ procLock' = k
                    /\ wpc' = [wpc EXCEPT ![k] = "stop_kill"]
                    /\ UNCHANGED result
               ELSE /\ Return(k, "ok")
                    /\ UNCHANGED procLock
    /\ UNCHANGED << procCell, wsCell, proc, chan, nonWorkerVars >>

\* child.kill().await?, then *lock = None; the guard is dropped on return.
\* The killed process's stderr ends, so a reader task still scanning it
\* drops its sender.
StopKill(k) ==
    /\ wpc[k] = "stop_kill"
    /\ procLock' = NoHolder
    /\ \/ /\ Return(k, ErrKill)
          /\ UNCHANGED << procCell, proc, chan >>
       \/ /\ proc' = [proc EXCEPT ![procCell[1][1]] = "exited"]
          /\ chan' = [chan EXCEPT ![procCell[1][1]] = IF @ = "open" THEN "dropped" ELSE @]
          /\ procCell' = Some(None)
          /\ Return(k, "ok")
    /\ UNCHANGED << wsCell, nonWorkerVars >>

\* the worker process ends on its own after it became ready
WorkerExits(k) ==
    /\ proc[k] = "ready"
    /\ proc' = [proc EXCEPT ![k] = "exited"]
    /\ UNCHANGED << procCell, procLock, wsCell, chan, wpc, result, nonWorkerVars >>

WorkerNext ==
    \/ \E k \in Callers : CallStart(k)
    \/ \E k \in Callers : StartCheck(k)
    \/ \E k \in Callers : StartSpawn(k)
    \/ \E k \in Callers : StartStore(k)
    \/ \E k \in Callers : WorkerReady(k)
    \/ \E k \in Callers : WorkerStderrEnds(k)
    \/ \E k \in Callers : WorkerExits(k)
    \/ \E k \in Callers : StartReady(k)
    \/ \E k \in Callers : StartTimeout(k)
    \/ \E k \in Callers : StartSignalFailed(k)
    \/ \E k \in Callers : StartConnect(k)
    \/ \E k \in Callers : CallStop(k)
    \/ \E k \in Callers : StopCheck(k)
    \/ \E k \in Callers : StopKill(k)

\* ------------------------------------------------------------------------
\* Worker protocol client: analyze / verify / detect and send_request
\* ------------------------------------------------------------------------

ErrNotStarted == "DeepFace WS not started"
ErrSend == "send error"
ErrUnexpected == "Unexpected WS message"
ErrWs == "WS error"
ErrNoResponse == "No response from DeepFace"
ErrParse == "reply parse error"

CallErrors == {ErrSend, ErrUnexpected, ErrWs, ErrNoResponse, ErrParse}

\* frames the worker puts on the link: a text that answers request rid
\* (valid JSON or not), or a frame that is not text
ReplyFrame(rid, valid) == [type |-> "text", re |-> rid, valid |-> valid]
PingFrame == [type |-> "ping"]

\* mutant: the counter is read but not advanced
FetchAddStale(c) == [ret |-> c, new |-> c]

\* REQUEST_COUNTER.fetch_add(1, SeqCst): one atomic step (the u64 wraps only
\* after 2^64 calls, beyond any bound used here)
FetchAdd(c) == [ret |-> c, new |-> c + 1]

\* mutant: the link is used without waiting for the lock
LockFreeAlways(h) == TRUE

\* client_mutex.lock().await resolves only when nobody holds the lock
LockFree(h) == h = NoHolder

\* send_request returns r; the MutexGuard, if held, is dropped
CallReturn(k, r) ==
    /\ Return(k, r)
    /\ linkLock' = IF linkLock = k THEN NoHolder ELSE linkLock
    /\ failed' = (failed \/ r \in CallErrors)
    /\ myReq' = [myReq EXCEPT ![k] = None]

\* json!({"requestId": next_request_id(), "cmd": .., ..}) followed by the
\* call of send_request: the part the three commands share. Of the request
\* only the requestId matters to send_request and to the link.
BuildRequest(k) ==
    /\ wpc[k] = "idle"
    /\ counter <= MaxCalls
    /\ myReq' = [myReq EXCEPT ![k] = Some(FetchAdd(counter).ret)]
    /\ counter' = FetchAdd(counter).new
    /\ issued' = Append(issued, FetchAdd(counter).ret)
    /\ wpc' = [wpc EXCEPT ![k] = "c_get"]
    /\ result' = [result EXCEPT ![k] = "pending"]
    /\ UNCHANGED << procCell, procLock, wsCell, proc, chan, linkLock, linkDown, outbox,
                    inbox, lastOk, sent, failed, hostVars >>

analyze_deepface(k) == BuildRequest(k)

verify_deepface(k) == BuildRequest(k)

detect_deepface(k) == BuildRequest(k)

\* WS_CLIENT.get().ok_or("DeepFace WS not started")?
CallGet(k) ==
    /\ wpc[k] = "c_get"
    /\ IF CellIsSet(wsCell)
       THEN /\ wpc' = [wpc EXCEPT ![k] = "c_lock"]
            /\ UNCHANGED << result, linkLock, failed, myReq >>
       ELSE CallReturn(k, ErrNotStarted)
    /\ UNCHANGED << procCell, procLock, wsCell, proc, chan, counter, linkDown, outbox,
                    inbox, lastOk, issued, sent, hostVars >>

\* client_mutex.lock().await
CallLock(k) ==
    /\ wpc[k] = "c_lock"
    /\ LockFree(linkLock)
    /\ linkLock' = k
    /\ wpc' = [wpc EXCEPT ![k] = "c_send"]
    /\ UNCHANGED << procCell, procLock, wsCell, proc, chan, result, counter, linkDown,
                    outbox, inbox, myReq, lastOk, issued, sent, failed, hostVars >>

\* client.send(Message::Text(text)).await.map_err(..)?: on a link whose
\* peer has gone the write fails, or is buffered and lost
CallSend(k) ==
    /\ wpc[k] = "c_send"
    /\ \/ /\ ~linkDown
          /\ outbox' = Append(outbox, myReq[k][1])
          /\ sent' = Append(sent, myReq[k][1])
          /\ wpc' = [wpc EXCEPT ![k] = "c_recv"]
          /\ UNCHANGED << result, linkLock, failed, myReq >>
       \/ /\ linkDown
          /\ wpc' = [wpc EXCEPT ![k] = "c_recv"]
          /\ UNCHANGED << outbox, sent, result, linkLock, failed, myReq >>
       \/ /\ linkDown
          /\ CallReturn(k, ErrSend)
          /\ UNCHANGED << outbox, sent >>
    /\ UNCHANGED << procCell, procLock, wsCell, proc, chan, counter, linkDown, inbox,
                    lastOk, issued, hostVars >>

\* mutant: the wait for the reply gives up while the link is open and silent
CallRecvTimesOut(k) ==
    /\ wpc[k] = "c_recv"
    /\ \/ /\ inbox # << >>
          /\ inbox' = Tail(inbox)
          /\ IF Head(inbox).type # "text"
             THEN /\ CallReturn(k, ErrUnexpected)
                  /\ UNCHANGED lastOk
             ELSE IF Head(inbox).valid
             THEN /\ lastOk' = Some([sent |-> myReq[k][1], re |-> Head(inbox).re])
                  /\ CallReturn(k, "ok")
             ELSE /\ CallReturn(k, ErrParse)
                  /\ UNCHANGED lastOk
       \/ /\ inbox = << >>
          /\ \E e \in {ErrNoResponse, ErrWs} : CallReturn(k, e)
          /\ UNCHANGED << inbox, lastOk >>
    /\ UNCHANGED << procCell, procLock, wsCell, proc, chan, counter, linkDown, outbox,
                    issued, sent, hostVars >>

\* client.next().await and the match on the frame it yields
CallRecv(k) ==
    /\ wpc[k] = "c_recv"
    /\ \/ /\ inbox # << >>
          /\ inbox' = Tail(inbox)
          /\ IF Head(inbox).type # "text"
             THEN /\ CallReturn(k, ErrUnexpected)
                  /\ UNCHANGED lastOk
             ELSE IF Head(inbox).valid
             THEN /\ lastOk' = Some([sent |-> myReq[k][1], re |-> Head(inbox).re])
                  /\ CallReturn(k, "ok")
             ELSE /\ CallReturn(k, ErrParse)
                  /\ UNCHANGED lastOk
       \/ /\ inbox = << >>
          /\ linkDown
          /\ \E e \in {ErrNoResponse, ErrWs} : CallReturn(k, e)
          /\ UNCHANGED << inbox, lastOk >>
    /\ UNCHANGED << procCell, procLock, wsCell, proc, chan, counter, linkDown, outbox,
                    issued, sent, hostVars >>

\* the worker process at the other end of the link is running
WorkerAlive == CellIsSet(wsCell) /\ proc[wsCell[1]] = "ready" /\ ~linkDown

\* the worker handles the oldest request it has received and answers it
WorkerReplies ==
    /\ WorkerAlive
    /\ outbox # << >>
    /\ \E valid \in BOOLEAN : inbox' = Append(inbox, ReplyFrame(Head(outbox), valid))
    /\ outbox' = Tail(outbox)
    /\ UNCHANGED << workerVars, counter, linkLock, linkDown, myReq, lastOk, issued, sent, failed, hostVars >>

\* the worker's WebSocket library sends a frame of its own (a keepalive ping)
WorkerPings ==
    /\ WorkerAlive
    /\ Len(inbox) < MaxInbox
    /\ inbox' = Append(inbox, PingFrame)
    /\ UNCHANGED << workerVars, counter, linkLock, linkDown, outbox, myReq, lastOk, issued, sent, failed, hostVars >>

\* the worker's end of the link closes
LinkCloses ==
    /\ CellIsSet(wsCell)
    /\ ~linkDown
    /\ linkDown' = TRUE
    /\ UNCHANGED << workerVars, counter, linkLock, outbox, inbox, myReq, lastOk, issued, sent, failed, hostVars >>

\* a successful start has returned: handle stored, worker ready, link installed
Started ==
    /\ procCell = Some(Some(1))
    /\ procLock = NoHolder
    /\ wsCell = Some(1)
    /\ proc = [k \in Callers |-> IF k = 1 THEN "ready" ELSE "none"]
    /\ chan = [k \in Callers |-> IF k = 1 THEN "received" ELSE "none"]
    /\ wpc = [k \in Callers |-> "idle"]
    /\ result = [k \in Callers |-> IF k = 1 THEN "ok" ELSE "none"]

CallsNext ==
    \/ \E k \in Callers : analyze_deepface(k)
    \/ \E k \in Callers : verify_deepface(k)
    \/ \E k \in Callers : detect_deepface(k)
    \/ \E k \in Callers : CallGet(k)
    \/ \E k \in Callers : CallLock(k)
    \/ \E k \in Callers : CallSend(k)
    \/ \E k \in Callers : CallRecv(k)
    \/ WorkerReplies
    \/ WorkerPings
    \/ LinkCloses

\* ------------------------------------------------------------------------
\* Specifications
\* ------------------------------------------------------------------------

Init == RelayInit /\ DispatchIdle /\ WorkerInit /\ CallInit

Next == RelayNext

Spec == Init /\ [][Next]_vars

InitDispatch == RelayInit /\ DispatchInit /\ WorkerInit /\ CallInit

SpecDispatch == InitDispatch /\ [][DispatchNext]_vars

SpecWorker == Init /\ [][WorkerNext]_vars

\* calls on a subsystem that was never started, or that a start has set up
InitCalls == RelayInit /\ DispatchIdle /\ (WorkerInit \/ Started) /\ CallInit

SpecCalls == InitCalls /\ [][CallsNext]_vars

\* ------------------------------------------------------------------------
\* Properties
\* ------------------------------------------------------------------------

Active(c) == permit[c]

NumActive == Cardinality({c \in Conns : Active(c)})

\* what a client sees in a frame
IsText(f) == f.type = "text"
IsClose(f) == f.type = "close"
IsGreeting(f) ==
    /\ IsText(f)
    /\ DOMAIN f.body.o = {"status", "message"}
    /\ f.body.o.status = JStr("ok")
    /\ f.body.o.message = JStr("Connected to Rust WS server")
IsBusy(f) ==
    /\ IsText(f)
    /\ DOMAIN f.body.o = {"status", "message"}
    /\ f.body.o.status = JStr("error")
    /\ f.body.o.message = JStr("Server busy: too many connections")
IsInvalidJson(f) ==
    /\ IsText(f)
    /\ DOMAIN f.body.o = {"status", "message"}
    /\ f.body.o.status = JStr("error")
    /\ f.body.o.message = JStr("Invalid JSON")
IsResponse(f) ==
    /\ IsText(f)
    /\ DOMAIN f.body.o = {"requestId", "status", "command", "data"}

\* the connection went down the Busy path
Rejected(c) ==
    \/ pc[c] \in {"busy_send", "busy_close"}
    \/ endedBy[c] \in {"busy_send_error", "busy_close_error", "busy_done"}

\* the connection was Active and its task has ended
EndedActive(c) ==
    /\ pc[c] = "closed"
    /\ endedBy[c] \in {"close_frame", "read_error", "send_error", "stream_end"}

\* C1: in every reachable state the number of connections that hold a
\* permit is at most MAX_CONNECTIONS.
C1_ActiveAtMostMax == NumActive <= MAX_CONNECTIONS

\* C1 witness: the limit is reached while a further connection, whose
\* upgrade succeeded, is being turned away.
C1_Witness ==
    /\ NumActive = MAX_CONNECTIONS
    /\ \E c \in Conns : pc[c] = "busy_send"

\* C2: a connection that got no permit is sent the busy text frame, then the
\* close frame, and then its task ends; it is never sent the greeting or a
\* response, it never holds a permit and no frame is read from it.  (A send
\* that fails at the transport ends the sequence where it failed.)
C2_BusySequence ==
    \A c \in Conns : Rejected(c) =>
        /\ ~permit[c]
        /\ \A i \in 1..Len(log[c]) : IsOut(log[c][i])
        /\ \A i \in 1..Len(Sent(c)) : ~IsGreeting(Sent(c)[i]) /\ ~IsResponse(Sent(c)[i])
        /\ Len(Sent(c)) <= 2
        /\ Len(Sent(c)) >= 1 => IsBusy(Sent(c)[1])
        /\ Len(Sent(c)) = 2 => IsClose(Sent(c)[2])
        /\ pc[c] = "busy_send" => Len(Sent(c)) = 0
        /\ pc[c] = "busy_close" => Len(Sent(c)) = 1
        /\ endedBy[c] = "busy_send_error" => Len(Sent(c)) = 0
        /\ endedBy[c] = "busy_close_error" => Len(Sent(c)) = 1
        /\ endedBy[c] = "busy_done" => pc[c] = "closed" /\ Len(Sent(c)) = 2

\* C2 witness: a rejected connection has ended after the busy frame and the
\* close frame.
C2_Witness ==
    \E c \in Conns :
        /\ pc[c] = "closed"
        /\ endedBy[c] = "busy_done"
        /\ Len(Sent(c)) = 2
        /\ IsBusy(Sent(c)[1])
        /\ IsClose(Sent(c)[2])

\* the permits in the semaphore and the permits held add up to the pool
PermitsConserved ==
    /\ permits + NumActive = MAX_CONNECTIONS
    /\ \A c \in Conns : permit[c] => pc[c] \in {"greeting", "reading", "handling"}

\* C3: whichever way an Active connection ends (Close frame, read error,
\* send error, end of stream), that step gives its permit back exactly once,
\* and an upgrade that finds fewer than MAX_CONNECTIONS connections Active is
\* admitted.
C3_PermitReleasedOnce ==
    [][ /\ PermitsConserved'
        /\ \A c \in Conns :
             /\ (permit[c] /\ pc'[c] = "closed") =>
                    (permits' = permits + 1 /\ ~permit'[c])
             /\ (pc[c] = "handshaking" /\ pc'[c] \in {"greeting", "busy_send"}) =>
                    ((pc'[c] = "greeting") <=> (NumActive < MAX_CONNECTIONS)) ]_vars

\* C3 witness: a connection that was Active has ended and a connection
\* admitted after it is Active.
C3_Witness ==
    \E c, d \in Conns :
        /\ c # d
        /\ EndedActive(c)
        /\ Active(d)
        /\ pc[d] = "reading"

\* the per-connection state of a
ConnState(a) == << pc[a], permit[a], cur[a], log[a], status[a], endedBy[a] >>

\* C4: no step of a connection that is being rejected changes an Active
\* connection or the semaphore; and an Active connection that has seen a
\* rejection still answers a valid request with its normal response.
C4_RejectionLeavesActive ==
    [][ \A a \in Conns :
          /\ \A b \in Conns \ {a} :
               ( /\ Active(a)
                 /\ pc[b] \in {"handshaking", "busy_send", "busy_close"}
                 /\ pc'[b] \in {"busy_send", "busy_close", "closed"}
                 /\ pc'[b] # pc[b]
                 /\ endedBy'[b] # "handshake_error" )
               => /\ ConnState(a)' = ConnState(a)
                  /\ permits' = permits
          /\ ( /\ sawReject[a]
               /\ pc[a] = "handling"
               /\ pc'[a] = "reading"
               /\ Parseable(cur[a][1]) )
             => /\ Active(a)'
                /\ log'[a] = Append(log[a], log'[a][Len(log'[a])])
                /\ IsOut(log'[a][Len(log'[a])])
                /\ IsResponse(log'[a][Len(log'[a])].frame)
                /\ log'[a][Len(log'[a])].frame.body.o.status = JStr("ok")
                /\ log'[a][Len(log'[a])].frame.body.o.command = cur[a][1].command ]_vars

\* C4 witness: B was rejected and has ended while A was Active, and A has
\* since read a valid request and sent its response.
C4_Witness ==
    \E a, b \in Conns :
        /\ a # b
        /\ Active(a)
        /\ sawReject[a]
        /\ endedBy[b] = "busy_done"
        /\ pc[a] = "reading"
        /\ Len(log[a]) = 3
        /\ IsIn(log[a][2])
        /\ Parseable(log[a][2].frame)
        /\ IsResponse(log[a][3].frame)

\* C5: when the text being handled does not parse, the step that handles it
\* sends exactly one Invalid-JSON frame and the connection is back at the
\* top of its loop with its permit, able to read the next frame; only a
\* failed send ends the connection.
C5_InvalidJsonKeepsOpen ==
    [][ \A c \in Conns :
          ( /\ pc[c] = "handling"
            /\ ~Parseable(cur[c][1])
            /\ pc'[c] # "handling" )
          => \/ /\ pc'[c] = "reading"
                /\ Active(c)'
                /\ Len(log'[c]) = Len(log[c]) + 1
                /\ SubSeq(log'[c], 1, Len(log[c])) = log[c]
                /\ IsOut(log'[c][Len(log'[c])])
                /\ IsInvalidJson(log'[c][Len(log'[c])].frame)
             \/ /\ pc'[c] = "closed"
                /\ endedBy'[c] = "send_error"
                /\ log'[c] = log[c] ]_vars

\* C5 witness: after a text that did not parse and its Invalid-JSON frame,
\* the same connection has read a valid request and answered it.
C5_Witness ==
    \E c \in Conns :
        /\ Active(c)
        /\ Len(log[c]) = 5
        /\ IsIn(log[c][2]) /\ ~Parseable(log[c][2].frame)
        /\ IsOut(log[c][3]) /\ IsInvalidJson(log[c][3].frame)
        /\ IsIn(log[c][4]) /\ Parseable(log[c][4].frame)
        /\ IsOut(log[c][5]) /\ IsResponse(log[c][5].frame)

\* frame f answers text t: a response envelope that echoes t's command when
\* t parses, the Invalid-JSON frame when it does not
AnswerTo(t, f) ==
    IF Parseable(t)
    THEN IsResponse(f) /\ f.body.o.command = t.command
    ELSE IsInvalidJson(f)

\* C6: on a connection, every text read is followed at once by exactly one
\* frame that answers it, and no text is read while the answer to the
\* previous one is still unsent: reads and answers alternate, so answers
\* leave in the order of their requests.
C6_NoPipelining ==
    \A c \in Conns : \A i \in 1..Len(log[c]) :
        /\ IsIn(log[c][i]) =>
             /\ i > 1
             /\ IsOut(log[c][i - 1])
             /\ IF i < Len(log[c])
                THEN /\ IsOut(log[c][i + 1])
                     /\ AnswerTo(log[c][i].frame, log[c][i + 1].frame)
                ELSE \/ pc[c] = "handling" /\ cur[c] = Some(log[c][i].frame)
                     \/ pc[c] = "closed" /\ endedBy[c] = "send_error"
        /\ (IsOut(log[c][i]) /\ i > 1 /\ ~Rejected(c)) => IsIn(log[c][i - 1])

\* C6 witness: a connection has read two parseable requests and sent a
\* response after each.
C6_Witness ==
    \E c \in Conns :
        /\ Len(log[c]) = 5
        /\ IsIn(log[c][2]) /\ Parseable(log[c][2].frame)
        /\ IsOut(log[c][3]) /\ IsResponse(log[c][3].frame)
        /\ IsIn(log[c][4]) /\ Parseable(log[c][4].frame)
        /\ log[c][4].frame # log[c][2].frame
        /\ IsOut(log[c][5]) /\ IsResponse(log[c][5].frame)

\* the dispatcher has answered a text that parses as a Request Envelope
Answered ==
    /\ dOut # None
    /\ dIn.json
    /\ dIn.command.k = "str"
    /\ dIn.payload.k # "absent"
    /\ \/ dIn.requestId.k \in {"absent", "null"}
       \/ dIn.requestId.k = "num" /\ dIn.requestId.n >= 0

\* C7: for every parseable request, whatever its command, the response's
\* requestId is the request's requestId, and it is null exactly when the
\* request's was absent or null.
C7_RequestIdRoundTrip ==
    Answered =>
        /\ DOMAIN dOut[1].o = {"requestId", "status", "command", "data"}
        /\ dIn.requestId.k \in {"absent", "null"} <=> dOut[1].o.requestId = JNull
        /\ dIn.requestId.k = "num" => dOut[1].o.requestId = dIn.requestId

\* C7 witness: requests with an id and without one, with known and unknown
\* commands, have been answered.
C7_Witness ==
    /\ Answered
    /\ dIn.requestId = JNum(MaxRequestId)
    /\ dIn.command.s \in UnknownCommands
    /\ dOut[1].o.requestId = JNum(MaxRequestId)

\* C8: for every request whose command is not in the dispatch table the
\* response has status "error", echoes the command and carries
\* {message: "Unknown command"}; a response is produced for every request.
C8_UnknownCommand ==
    Answered =>
        /\ DOMAIN dOut[1].o = {"requestId", "status", "command", "data"}
        /\ dIn.command.s \notin {"test_server_connection", "fetch_JSON", "fetch_deepFaceCameraEmotionList"} =>
             /\ dOut[1].o.status = JStr("error")
             /\ dOut[1].o.command = dIn.command
             /\ dOut[1].o.data = JObj([message |-> JStr("Unknown command")])

\* C8 witness: a command that differs from a known one only in case has
\* been answered as unknown.
C8_Witness ==
    /\ Answered
    /\ dIn.command = JStr("fetch_json")
    /\ dIn.payload = JObj([a |-> JNum(1)])
    /\ dOut[1].o.status = JStr("error")

\* C9: for every request with a known command the response has status "ok"
\* and echoes the command; test_server_connection answers "Server is alive!"
\* whatever the payload and fetch_JSON answers with the payload unchanged.
C9_KnownCommands ==
    Answered =>
        /\ dIn.command.s \in {"test_server_connection", "fetch_JSON", "fetch_deepFaceCameraEmotionList"} =>
             /\ dOut[1].o.status = JStr("ok")
             /\ dOut[1].o.command = dIn.command
        /\ dIn.command.s = "test_server_connection" => dOut[1].o.data = JStr("Server is alive!")
        /\ dIn.command.s = "fetch_JSON" => dOut[1].o.data = dIn.payload

\* C9 witness: fetch_JSON with id and payload {a: 1} has been answered with
\* that payload.
C9_Witness ==
    /\ Answered
    /\ dIn.command = JStr("fetch_JSON")
    /\ dIn.requestId = JNum(MaxRequestId)
    /\ dIn.payload = JObj([a |-> JNum(1)])
    /\ dOut[1].o = [requestId |-> JNum(MaxRequestId), status |-> JStr("ok"),
                    command |-> JStr("fetch_JSON"), data |-> JObj([a |-> JNum(1)])]

\* a start call stored its child handle and no stop has cleared it
HandleStored == IsSome(procCell) /\ IsSome(procCell[1])

\* C10: when start runs its already-running check while a handle stored by
\* an earlier start is still in place, it returns the already-started
\* error, spawns no process, and leaves the stored handle and the link
\* unchanged.
C10_SecondStartRejected ==
    [][ \A k \in Callers :
          ( /\ HandleStored
            /\ wpc[k] = "s_check"
            /\ wpc'[k] # "s_check" )
          => /\ wpc'[k] = "idle"
             /\ result'[k] = "DeepFace server already started"
             /\ proc' = proc
             /\ chan' = chan
             /\ procCell' = procCell
             /\ wsCell' = wsCell ]_vars

\* C10 witness: one start succeeded (handle stored, link installed), no
\* process has been stopped, and a second start has returned the error
\* with still only one process spawned.
C10_Witness ==
    \E j, k \in Callers :
        /\ j # k
        /\ procCell = Some(Some(j))
        /\ wsCell = Some(j)
        /\ result[j] = "ok"
        /\ proc[j] = "ready"
        /\ result[k] = "DeepFace server already started"
        /\ wpc[k] = "idle"
        /\ proc[k] = "none"

\* a worker process that has been spawned and has not ended
Running(k) == proc[k] \in {"starting", "ready"}

\* C11: at most one worker process exists at any time, for every
\* interleaving of start calls.
C11_AtMostOneWorker == Cardinality({k \in Callers : Running(k)}) <= 1

\* C12: when stop finds no worker running (no handle was ever stored, or an
\* earlier stop cleared it), it returns success and changes nothing: no
\* process is signalled, and the stored handle, the link and the request
\* counter stay as they were.
C12_StopNoop ==
    [][ \A k \in Callers :
          ( /\ ~HandleStored
            /\ wpc[k] = "stop_check"
            /\ wpc'[k] # "stop_check" )
          => /\ wpc'[k] = "idle"
             /\ result'[k] = "ok"
             /\ proc' = proc
             /\ chan' = chan
             /\ procCell' = procCell
             /\ procLock' = procLock
             /\ wsCell' = wsCell
             /\ counter' = counter ]_vars

\* C12 witness: a stop has returned success although no start ever stored a
\* handle.
C12_Witness ==
    \E k \in Callers :
        /\ procCell = << >>
        /\ wpc[k] = "idle"
        /\ result[k] = "ok"

\* C16: after a start that succeeded and a stop that terminated the worker,
\* a later start is not rejected as already running: its already-running
\* check lets it go on to spawn a new worker.
C16_RestartAccepted ==
    [][ \A k \in Callers :
          ( /\ procCell = << << >> >>
            /\ wsCell # << >>
            /\ wpc[k] = "s_check"
            /\ wpc'[k] # "s_check" )
          => wpc'[k] = "s_spawn" ]_vars

\* C17: once a stop has terminated the worker and cleared the handle, no
\* link exists either.
C17_StopDestroysBoth == (procCell = << << >> >>) => (wsCell = << >>)

\* C20: start reaches the link connection only after it received the
\* readiness signal; it returns success only from the connection step, with
\* readiness received and a link installed; a failed connection attempt
\* returns the connect error and installs no link.
C20_ConnectAfterReady ==
    [][ \A k \in Callers :
          /\ (wpc'[k] = "s_connect") => (chan'[k] = "received")
          /\ ( /\ wpc[k] \in {"s_check", "s_spawn", "s_store", "s_wait", "s_connect"}
               /\ result'[k] = "ok" )
             => /\ wpc[k] = "s_connect"
                /\ chan[k] = "received"
                /\ wsCell' # << >>
          /\ ( /\ wpc[k] = "s_connect"
               /\ wpc'[k] = "idle"
               /\ result'[k] # "ok" )
             => /\ result'[k] = "Failed to connect WS"
                /\ wsCell' = wsCell ]_vars

\* C20 witness: one start returned success with the link installed, another
\* received the readiness signal, failed to connect and returned the error.
C20_Witness ==
    \E j, k \in Callers :
        /\ result[j] = "ok"
        /\ chan[j] = "received"
        /\ wsCell = <<j>>
        /\ result[k] = "Failed to connect WS"
        /\ chan[k] = "received"
        /\ wpc[k] = "idle"

\* C18: on a connection that was admitted, the greeting is the first frame
\* sent and it is sent before any frame is read: the task reads, handles or
\* ends a read only with the greeting already sent, and nothing precedes the
\* greeting in the connection's traffic.
C18_GreetingFirst ==
    \A c \in Conns :
        /\ ( \/ pc[c] \in {"reading", "handling"}
             \/ endedBy[c] \in {"close_frame", "read_error", "stream_end"} )
           => log[c] # << >>
        /\ (log[c] # << >> /\ ~Rejected(c)) =>
             /\ IsOut(log[c][1])
             /\ IsGreeting(log[c][1].frame)
             /\ \A i \in 2..Len(log[c]) : IsOut(log[c][i]) => ~IsGreeting(log[c][i].frame)

\* C18 witness: an admitted connection was greeted, then read a request and
\* answered it.
C18_Witness ==
    \E c \in Conns :
        /\ permit[c]
        /\ Len(log[c]) = 3
        /\ IsGreeting(log[c][1].frame)
        /\ IsIn(log[c][2])
        /\ IsResponse(log[c][3].frame)

\* the call of k is in its request/response cycle on the link
InCycle(k) == wpc[k] \in {"c_send", "c_recv"}

\* C13: worker request identifiers start at 1 and strictly increase in the
\* order they are assigned, so no identifier is handed out twice, whichever
\* command assigned it and however the callers interleave.
C13_RequestIdsIncrease ==
    /\ (issued # << >>) => (issued[1] = 1)
    /\ \A i, j \in 1..Len(issued) : (i < j) => (issued[i] < issued[j])
    /\ \A j, k \in Callers :
         (j # k /\ myReq[j] # << >> /\ myReq[k] # << >>) => (myReq[j] # myReq[k])

\* C13 witness: identifiers were assigned to calls of two different
\* callers, three or more in all.
C13_Witness ==
    /\ Len(issued) >= 3
    /\ \E j, k \in Callers : j # k /\ myReq[j] # << >> /\ myReq[k] # << >>

\* C14: calls are serialized by the link lock: at most one call is in its
\* request/response cycle on the link at any time, and that call holds the
\* lock, so another caller sends only after the cycle before it has ended
\* with a response or an error.
C14_CallsSerialized ==
    /\ Cardinality({k \in Callers : InCycle(k)}) <= 1
    /\ \A k \in Callers : InCycle(k) => (linkLock = k)
    /\ \A k \in Callers : (linkLock = k) => InCycle(k)

\* C14 witness: one caller awaits its reply holding the lock while another
\* caller waits for the lock.
C14_Witness ==
    \E j, k \in Callers :
        /\ j # k
        /\ wpc[j] = "c_recv"
        /\ linkLock = j
        /\ wpc[k] = "c_lock"

\* C15: every value a call returns successfully is the worker's reply to
\* the request this call sent.
C15_ReplyMatchesRequest == (lastOk # << >>) => (lastOk[1].re = lastOk[1].sent)

\* C19: a call error leaves the link as it was: the failed call does not
\* keep the lock, and a call that succeeds after a failed one returns the
\* reply to its own request.
C19_ErrorLeavesLinkIntact ==
    /\ \A k \in Callers : (wpc[k] = "idle" /\ result[k] \in CallErrors) => (linkLock # k)
    /\ (failed /\ lastOk # << >>) => (lastOk[1].re = lastOk[1].sent)

\* the start of k is past its already-running check or at it
StartInFlight(k) == wpc[k] \in {"s_check", "s_spawn", "s_store", "s_wait", "s_connect"}

\* C21: once start has spawned the worker it leaves its waiting step only
\* when the readiness event fires (it goes on to connect) or when the
\* timeout elapses (it returns the timeout error).
C21_WaitEndsOnReadyOrTimeout ==
    [][ \A k \in Callers :
          (wpc[k] = "s_wait" /\ wpc'[k] # "s_wait")
          => \/ wpc'[k] = "s_connect" /\ chan[k] = "sent"
             \/ wpc'[k] = "idle" /\ result'[k] = "Timeout waiting for DeepFace to start" ]_vars

\* C22: when the readiness wait times out, start returns the timeout error
\* and leaves everything else alone: the spawned process keeps running, the
\* stored handle stays as it is and no link is installed. When no other
\* start has spawned a worker, that means: this start's handle is stored and
\* no link exists.
C22_TimeoutLeavesWorker ==
    [][ \A k \in Callers :
          (wpc[k] = "s_wait" /\ chan[k] = "open" /\ wpc'[k] # "s_wait")
          => /\ wpc'[k] = "idle"
             /\ result'[k] = "Timeout waiting for DeepFace to start"
             /\ proc[k] = "starting"
             /\ proc' = proc
             /\ procCell' = procCell
             /\ wsCell' = wsCell
             /\ (\A j \in Callers \ {k} : proc[j] = "none")
                  => (procCell' = << <<k>> >> /\ wsCell' = << >>) ]_vars

\* C22 witness: a start has returned the timeout error; its process still
\* runs without having become ready, its handle is stored, no link exists.
C22_Witness ==
    \E k \in Callers :
        /\ wpc[k] = "idle"
        /\ result[k] = "Timeout waiting for DeepFace to start"
        /\ proc[k] = "starting"
        /\ procCell = << <<k>> >>
        /\ wsCell = << >>

\* C26: when a start fails after it spawned the worker (timeout, readiness
\* channel dropped, connect failure) and no other start is in flight, the
\* handle cell is set and the link cell is unset. From then on no start gets
\* past its already-running check, so the link cell, which only a start
\* past that check writes, stays unset: every later start returns the
\* already-started error and every later call the not-started error.
C26_NeverUsableAgain ==
    [][ \A k \in Callers :
          ( /\ wpc[k] \in {"s_wait", "s_connect"}
            /\ wpc'[k] = "idle"
            /\ result'[k] # "ok"
            /\ \A j \in Callers \ {k} : ~StartInFlight(j) )
          => /\ procCell' # << >>
             /\ wsCell' = << >> ]_vars

\* C25: an Active connection that has ended, by a Close frame, by a
\* transport error or by the stream ending, has had the disconnect status
\* emitted for it.
C25_DisconnectEmitted ==
    \A c \in Conns :
        EndedActive(c) => (\E i \in 1..Len(status[c]) : status[c][i] = "Disconnected...")

\* C24: requests reach the worker link in increasing requestId order: each
\* request written to the link carries a larger requestId than every request
\* written to it before.
C24_SentInIdOrder == \A i, j \in 1..Len(sent) : (i < j) => (sent[i] < sent[j])

\* C23 as stated: a call whose request was sent and to which the worker has
\* not replied never returns and keeps the link lock.
C23_UnansweredCallNeverReturns ==
    [][ \A k \in Callers :
          ( /\ wpc[k] = "c_recv"
            /\ \A i \in 1..Len(inbox) : inbox[i].type # "text" )
          => /\ wpc'[k] = "c_recv"
             /\ linkLock' = k ]_vars

\* C23 amended: the wait for the reply has no timeout. While no frame has
\* arrived on the link and the link is open, the call that sent its request
\* does not return and keeps the link lock, and no other call enters its
\* request/response cycle or writes a request to the link.
C23_NoTimeout ==
    [][ \A k \in Callers :
          ( /\ wpc[k] = "c_recv"
            /\ inbox = << >>
            /\ linkDown = FALSE )
          => /\ wpc'[k] = "c_recv"
             /\ linkLock' = k
             /\ sent' = sent
             /\ \A j \in Callers \ {k} : wpc'[j] \notin {"c_send", "c_recv"} ]_vars

\* C23 witness: a call has sent its request, which the worker has not
\* handled; no frame is on the link, the link is open, the call holds the
\* lock and another caller waits for it.
C23_Witness ==
    \E j, k \in Callers :
        /\ j # k
        /\ wpc[j] = "c_recv"
        /\ linkLock = j
        /\ outbox = << myReq[j][1] >>
        /\ inbox = << >>
        /\ linkDown = FALSE
        /\ wpc[k] = "c_lock"

====
